---------------------------- MODULE Spec2Model ----------------------------
(***************************************************************************)
(* Model of calc.py: the /calculate request handler (calculate), the two  *)
(* evaluators it calls (calculate_loan, perform_calculation) and the       *)
(* pyplot figure registry that the graph branch draws through.             *)
(*                                                                         *)
(* Numbers.  A Python float is modelled by the exact rational it denotes,  *)
(* a pair <<n, d>> with d > 0 in lowest terms; IEEE rounding error is not  *)
(* modelled.  A real power with a non-integer exponent is kept symbolic    *)
(* ("surd"), and a negative base under a non-integer exponent is the       *)
(* complex number Python 3 returns for it.                                 *)
(*                                                                         *)
(* Strings are sequences of one-character strings, so that float(str),     *)
(* str.replace and the comparisons with the mode and operator literals     *)
(* are computed and not assumed.                                           *)
(***************************************************************************)
EXTENDS Integers, Sequences, FiniteSets, TLC

VARIABLES
    data,       \* data[t]: the JSON body of request t (request.get_json())
    pc,         \* pc[t]: the statement of calculate() request t is at
    loc,        \* loc[t]: the local variables of calculate() for request t
    resp,       \* resp[t]: the HTTP response of request t, once it returned
    coerced,    \* coerced[t]: how many float() calls request t has made
    calls,      \* calls[t]: the evaluator calls request t has made, in order
    figs,       \* pyplot's registry of open figures, the active one last
    drew        \* drew[t]: the pyplot calls of request t and the figure each hit

vars == <<data, pc, loc, resp, coerced, calls, figs, drew>>

---------------------------------------------------------------------------
(* Strings                                                                 *)

S_loan     == <<"l","o","a","n">>
S_basic    == <<"b","a","s","i","c">>
S_currency == <<"c","u","r","r","e","n","c","y">>
S_graph    == <<"g","r","a","p","h">>
S_Loan     == <<"L","o","a","n">>
S_plus     == <<"+">>
S_minus    == <<"-">>
S_times    == <<"*">>
S_div      == <<"/">>
S_mod      == <<"%">>
S_pow      == <<"^">>
S_root     == <<"r","o","o","t">>
S_convert  == <<"c","o","n","v","e","r","t">>

(* str.replace(old, new) for a one-character old, as the graph branch uses *)
(* it: expression.replace("^", "**").                                      *)
RECURSIVE Replace(_, _, _)
Replace(s, old, new) ==
    IF s = <<>> THEN <<>>
    ELSE (IF Head(s) = old THEN new ELSE <<Head(s)>>) \o Replace(Tail(s), old, new)

---------------------------------------------------------------------------
(* JSON values of the request body.  data.get(k) gives None both for a     *)
(* missing key and for a JSON null.                                        *)

Absent   == [t |-> "absent"]
Null     == [t |-> "null"]
Num(v)   == [t |-> "num", v |-> v]
Str(s)   == [t |-> "str", s |-> s]
Bool(b)  == [t |-> "bool", b |-> b]
List     == [t |-> "list"]
Obj      == [t |-> "obj"]

IsNone(v) == v.t \in {"absent", "null"}

(* data.get(key): the value, None when the key is missing                  *)
Get(d, key) == IF d[key] = Absent THEN Null ELSE d[key]

(* data.get(key, default)                                                  *)
GetDefault(d, key, default) == IF d[key] = Absent THEN default ELSE d[key]

(* Python truth value, for `not expression`                                *)
Truthy(v) ==
    CASE v.t \in {"absent", "null"} -> FALSE
      [] v.t = "num"  -> v.v # 0
      [] v.t = "str"  -> v.s # <<>>
      [] v.t = "bool" -> v.b
      [] OTHER        -> TRUE      \* the non-empty list and object of the model

---------------------------------------------------------------------------
(* Rationals                                                               *)

Abs(n) == IF n < 0 THEN -n ELSE n

RECURSIVE GCD(_, _)
GCD(a, b) == IF b = 0 THEN a ELSE GCD(b, a % b)

Norm(n, d) ==
    LET g == GCD(Abs(n), Abs(d))
        s == IF d < 0 THEN -1 ELSE 1
    IN  <<s * (n \div g), s * (d \div g)>>

Rat(n)       == <<n, 1>>
RatAdd(p, q) == Norm(p[1] * q[2] + q[1] * p[2], p[2] * q[2])
RatNeg(p)    == <<-p[1], p[2]>>
RatSub(p, q) == RatAdd(p, RatNeg(q))
RatMul(p, q) ==
    LET a == Norm(p[1], q[2])
        b == Norm(q[1], p[2])
    IN  Norm(a[1] * b[1], a[2] * b[2])
RatInv(p)    == Norm(p[2], p[1])
RatDiv(p, q) == RatMul(p, RatInv(q))
RatLt(p, q)  == p[1] * q[2] < q[1] * p[2]
RatLe(p, q)  == p[1] * q[2] <= q[1] * p[2]
RatIsZero(p) == p[1] = 0
RatIsInt(p)  == p[2] = 1
RatAbs(p)    == <<Abs(p[1]), p[2]>>

RECURSIVE IntPow(_, _)
IntPow(b, e) == IF e = 0 THEN 1 ELSE b * IntPow(b, e - 1)

(* p ** k for an integer k >= 0                                            *)
RatPowNat(p, k) == <<IntPow(p[1], k), IntPow(p[2], k)>>

(* round(x, 2): the nearest multiple of 1/100, a tie going to the even one *)
Round2(p) ==
    LET n    == p[1]
        d    == p[2]
        whole == n \div d                       \* floor
        r    == n % d                           \* 0 <= r < d
        c    == (100 * r) \div d
        r2   == (100 * r) % d
        up   == 2 * r2 > d \/ (2 * r2 = d /\ c % 2 = 1)
        cents == 100 * whole + c + (IF up THEN 1 ELSE 0)
    IN  Norm(cents, 100)

---------------------------------------------------------------------------
(* float(v) as calculate() applies it to a body value.  The outcome is the *)
(* float, or the exception float() raises: ValueError for a string that is *)
(* not a number, TypeError for a list or an object.  A JSON boolean is a   *)
(* Python bool, which float() accepts.  The strings of the model are an    *)
(* optional sign followed by decimal digits, or not numbers at all.        *)

DigitVal ==
    [c \in {"0","1","2","3","4","5","6","7","8","9"} |->
        CASE c = "0" -> 0 [] c = "1" -> 1 [] c = "2" -> 2 [] c = "3" -> 3
          [] c = "4" -> 4 [] c = "5" -> 5 [] c = "6" -> 6 [] c = "7" -> 7
          [] c = "8" -> 8 [] c = "9" -> 9]

IsDigits(s) == s # <<>> /\ \A i \in 1..Len(s) : s[i] \in DOMAIN DigitVal

RECURSIVE DigitsValue(_, _)
DigitsValue(s, acc) ==
    IF s = <<>> THEN acc ELSE DigitsValue(Tail(s), 10 * acc + DigitVal[Head(s)])

Raise(exc) == [ok |-> FALSE, exc |-> exc]
Value(v)   == [ok |-> TRUE, v |-> v]

ParseFloat(s) ==
    IF s # <<>> /\ Head(s) \in {"-", "+"}
    THEN IF IsDigits(Tail(s))
         THEN Value(Rat((IF Head(s) = "-" THEN -1 ELSE 1) * DigitsValue(Tail(s), 0)))
         ELSE Raise("ValueError")
    ELSE IF IsDigits(s) THEN Value(Rat(DigitsValue(s, 0)))
         ELSE Raise("ValueError")

ToFloat(v) ==
    CASE v.t = "num"  -> Value(Rat(v.v))
      [] v.t = "bool" -> Value(Rat(IF v.b THEN 1 ELSE 0))
      [] v.t = "str"  -> ParseFloat(v.s)
      [] OTHER        -> Raise("TypeError")

(* float() applied to the values of a list in order, as the try blocks of  *)
(* calculate() do: the first exception ends the block.  n counts the calls *)
(* made, vals holds the floats obtained.                                   *)
RECURSIVE CoerceAll(_, _, _)
CoerceAll(args, vals, n) ==
    IF args = <<>> THEN [ok |-> TRUE, vals |-> vals, n |-> n]
    ELSE LET f == ToFloat(Head(args))
         IN  IF f.ok THEN CoerceAll(Tail(args), Append(vals, f.v), n + 1)
             ELSE [ok |-> FALSE, exc |-> f.exc, n |-> n + 1]

---------------------------------------------------------------------------
(* Results of the evaluators: a float, a dict of floats, or a string.      *)
(* Every string the evaluators return is "Error" followed by a text, and   *)
(* calculate() tells an error from a result by that prefix.                *)

ErrorString(text) == [kind |-> "str", prefix |-> "Error", text |-> text]
FloatResult(v)    == [kind |-> "float", v |-> v]

StartsWithError(r) == r.kind = "str" /\ r.prefix = "Error"

E_LoanInvalid  == "Loan amount, interest rate, and term must be positive numbers."
E_ZeroDenom    == "Cannot calculate payment with zero denominator."
E_LoanUnexpect == "An unexpected error occurred"
E_DivZero      == "Division by zero is not allowed."
E_ZerothRoot   == "Cannot take 0th root."
E_NegativeRoot == "Cannot take root of negative number."
E_BadOperator  == "Invalid operator. Please use +, -, *, /, ^, or root."
E_CalcUnexpect == "An unexpected error occurred during calculation"

(* base ** exponent on floats.  An integer-valued exponent gives the exact *)
(* power; 0.0 to a negative power raises ZeroDivisionError; a non-integer  *)
(* exponent gives a real (kept symbolic) for a base >= 0 and a complex     *)
(* number for a base < 0.                                                  *)
FloatPow(b, e) ==
    IF RatIsInt(e)
    THEN IF e[1] >= 0 THEN Value(FloatResult(RatPowNat(b, e[1])))
         ELSE IF RatIsZero(b) THEN Raise("ZeroDivisionError")
         ELSE Value(FloatResult(RatInv(RatPowNat(b, -e[1]))))
    ELSE IF b[1] < 0 THEN Value([kind |-> "complex", base |-> b, exp |-> e])
         ELSE IF RatIsZero(b) /\ e[1] < 0 THEN Raise("ZeroDivisionError")
         ELSE Value([kind |-> "surd", base |-> b, exp |-> e])

(* a / b on floats                                                         *)
FloatDiv(a, b) ==
    IF RatIsZero(b) THEN Raise("ZeroDivisionError") ELSE Value(FloatResult(RatDiv(a, b)))

(* LoanPayment with the total taken over the years, not the payments      *)
LoanPayment_years(loan_amount, annual_interest_rate, loan_term_years) ==
    LET monthly_interest_rate == RatDiv(RatDiv(annual_interest_rate, Rat(100)), Rat(12))
        total_payments        == RatMul(loan_term_years, Rat(12))
        growth      == RatPowNat(RatAdd(Rat(1), monthly_interest_rate), total_payments[1])
        numerator   == RatMul(monthly_interest_rate, growth)
        denominator == RatSub(growth, Rat(1))
        Pay(monthly_payment) ==
            [kind |-> "dict",
             monthly_payment |-> Round2(monthly_payment),
             total_repayment |-> Round2(RatMul(monthly_payment, loan_term_years))]
    IN  IF RatIsZero(monthly_interest_rate)
        THEN LET q == FloatDiv(loan_amount, total_payments)
             IN  IF q.ok THEN Pay(q.v.v) ELSE ErrorString(E_LoanUnexpect)
        ELSE IF RatIsZero(denominator) THEN ErrorString(E_ZeroDenom)
             ELSE Pay(RatMul(loan_amount, RatDiv(numerator, denominator)))

(* The payment computation of calculate_loan, lines 25-49.  The floats of  *)
(* the model are integer-valued, so total_payments is an integer.          *)
LoanPayment(loan_amount, annual_interest_rate, loan_term_years) ==
    LET monthly_interest_rate == RatDiv(RatDiv(annual_interest_rate, Rat(100)), Rat(12))
        total_payments        == RatMul(loan_term_years, Rat(12))
        growth      == RatPowNat(RatAdd(Rat(1), monthly_interest_rate), total_payments[1])
        numerator   == RatMul(monthly_interest_rate, growth)
        denominator == RatSub(growth, Rat(1))
        Pay(monthly_payment) ==
            [kind |-> "dict",
             monthly_payment |-> Round2(monthly_payment),
             total_repayment |-> Round2(RatMul(monthly_payment, total_payments))]
    IN  IF RatIsZero(monthly_interest_rate)
        THEN LET q == FloatDiv(loan_amount, total_payments)
             IN  IF q.ok THEN Pay(q.v.v) ELSE ErrorString(E_LoanUnexpect)
        ELSE IF RatIsZero(denominator) THEN ErrorString(E_ZeroDenom)
             ELSE Pay(RatMul(loan_amount, RatDiv(numerator, denominator)))

(* calculate_loan accepting a term of zero years                           *)
calculate_loan_zero_term(loan_amount, annual_interest_rate, loan_term_years) ==
    IF \/ RatLt(loan_amount, Rat(0))
       \/ RatLt(annual_interest_rate, Rat(0))
       \/ RatLt(loan_term_years, Rat(0))
    THEN ErrorString(E_LoanInvalid)
    ELSE LoanPayment(loan_amount, annual_interest_rate, loan_term_years)

(* lines 21-22, then the payment computation                               *)
calculate_loan(loan_amount, annual_interest_rate, loan_term_years) ==
    IF \/ RatLt(loan_amount, Rat(0))
       \/ RatLt(annual_interest_rate, Rat(0))
       \/ RatLe(loan_term_years, Rat(0))
    THEN ErrorString(E_LoanInvalid)
    ELSE LoanPayment(loan_amount, annual_interest_rate, loan_term_years)

(* perform_calculation without the zero test of '/'                        *)
perform_calculation_unguarded(num1, num2, operator, mode) ==
    LET Caught(r) == IF r.ok THEN r.v ELSE ErrorString(E_CalcUnexpect)
    IN  CASE operator = Str(S_plus)  -> FloatResult(RatAdd(num1, num2))
          [] operator = Str(S_minus) -> FloatResult(RatSub(num1, num2))
          [] operator = Str(S_times) -> FloatResult(RatMul(num1, num2))
          [] operator = Str(S_div)   -> Caught(FloatDiv(num1, num2))
          [] operator = Str(S_pow)   -> Caught(FloatPow(num1, num2))
          [] operator = Str(S_root)  ->
                IF RatIsZero(num2) THEN ErrorString(E_ZerothRoot)
                ELSE IF RatLt(num2, Rat(0)) THEN ErrorString(E_NegativeRoot)
                ELSE LET inv == FloatDiv(Rat(1), num2)
                     IN  IF inv.ok THEN Caught(FloatPow(num1, inv.v.v))
                         ELSE ErrorString(E_CalcUnexpect)
          [] OTHER -> ErrorString(E_BadOperator)

(* lines 62-85; the except clause turns an exception into an error string  *)
perform_calculation(num1, num2, operator, mode) ==
    LET Caught(r) == IF r.ok THEN r.v ELSE ErrorString(E_CalcUnexpect)
    IN  CASE operator = Str(S_plus)  -> FloatResult(RatAdd(num1, num2))
          [] operator = Str(S_minus) -> FloatResult(RatSub(num1, num2))
          [] operator = Str(S_times) -> FloatResult(RatMul(num1, num2))
          [] operator = Str(S_div)   ->
                IF RatIsZero(num2) THEN ErrorString(E_DivZero)
                ELSE Caught(FloatDiv(num1, num2))
          [] operator = Str(S_pow)   -> Caught(FloatPow(num1, num2))
          [] operator = Str(S_root)  ->
                IF RatIsZero(num2) THEN ErrorString(E_ZerothRoot)
                ELSE IF RatLt(num2, Rat(0)) THEN ErrorString(E_NegativeRoot)
                ELSE LET inv == FloatDiv(Rat(1), num2)
                     IN  IF inv.ok THEN Caught(FloatPow(num1, inv.v.v))
                         ELSE ErrorString(E_CalcUnexpect)
          [] OTHER -> ErrorString(E_BadOperator)

---------------------------------------------------------------------------
(* The graph branch: numpy.linspace, eval over the samples, pyplot.        *)

NumPoints == 5      \* stands for num_points = 400 of the graph branch

DefaultXmin == -10
DefaultXmax == 10

(* np.linspace(start, stop, num): num evenly spaced floats, both ends      *)
(* included.  A bound that is not a number makes numpy raise.              *)
Linspace(start, stop, num) ==
    IF start.t # "num" \/ stop.t # "num" THEN Raise("TypeError")
    ELSE LET step == RatDiv(Rat(stop.v - start.v), Rat(num - 1))
         IN  Value([k \in 1..num |-> RatAdd(Rat(start.v), RatMul(Rat(k - 1), step))])

X_x     == <<"x">>
X_caret == <<"x","^","2">>
X_star  == <<"x","*","*","2">>
X_log   == <<"l","o","g","(","x",")">>
X_y     == <<"y">>

(* eval(code, {"x": val, "sin": sin, ..., "log": log, "sqrt": sqrt}) for   *)
(* the expressions of the model.  math.log raises ValueError outside its   *)
(* domain; "x^2" left unrewritten is a bitwise xor on a float, a           *)
(* TypeError; a name outside the namespace is a NameError.                 *)
Eval(code, val) ==
    CASE code = X_x    -> Value(FloatResult(val))
      [] code = X_star -> Value(FloatResult(RatMul(val, val)))
      [] code = X_log  -> IF RatLe(val, Rat(0)) THEN Raise("ValueError")
                          ELSE Value([kind |-> "log", arg |-> val])
      [] code = X_caret -> Raise("TypeError")
      [] OTHER         -> Raise("NameError")

(* EvalList leaving out the samples where evaluation throws                *)
RECURSIVE EvalList_skip(_, _, _)
EvalList_skip(expression, x, y) ==
    IF x = <<>> THEN Value(y)
    ELSE IF expression.t # "str" THEN Raise("AttributeError")
    ELSE LET r == Eval(Replace(expression.s, "^", <<"*","*">>), Head(x))
         IN  IF r.ok THEN EvalList_skip(expression, Tail(x), Append(y, r.v))
             ELSE EvalList_skip(expression, Tail(x), y)

(* y = [eval(expression.replace("^","**"), {...}) for val in x], lines     *)
(* 165-171: the first exception ends the comprehension.                    *)
RECURSIVE EvalList(_, _, _)
EvalList(expression, x, y) ==
    IF x = <<>> THEN Value(y)
    ELSE IF expression.t # "str" THEN Raise("AttributeError")
    ELSE LET r == Eval(Replace(expression.s, "^", <<"*","*">>), Head(x))
         IN  IF r.ok THEN EvalList(expression, Tail(x), Append(y, r.v))
             ELSE Raise(r.exc)

(* pyplot keeps its open figures in one process-wide ordered registry;     *)
(* every pyplot call acts on the active figure, the last of the registry.  *)
(* owner records the request whose call created the figure.                *)
NewFigure(num, owner) ==
    [num |-> num, owner |-> owner, lines |-> <<>>, xlabel |-> "", ylabel |-> "",
     title |-> <<>>, grid |-> FALSE]

RECURSIVE MaxNum(_)
MaxNum(fs) ==
    IF fs = <<>> THEN 0
    ELSE LET m == MaxNum(Tail(fs)) IN IF Head(fs).num > m THEN Head(fs).num ELSE m

(* plt.figure(): a new figure, which becomes the active one                *)
PltFigure(fs, t) == Append(fs, NewFigure(MaxNum(fs) + 1, t))

(* plt.gcf(): the active figure, created when no figure is open            *)
PltGcf(fs, t) == IF fs = <<>> THEN PltFigure(fs, t) ELSE fs

Active(fs) == fs[Len(fs)]

PltPlot(fs, t, x, y) ==
    LET g == PltGcf(fs, t)
    IN  [g EXCEPT ![Len(g)].lines = Append(@, [x |-> x, y |-> y])]

PltXlabel(fs, t, s) ==
    LET g == PltGcf(fs, t) IN [g EXCEPT ![Len(g)].xlabel = s]

PltYlabel(fs, t, s) ==
    LET g == PltGcf(fs, t) IN [g EXCEPT ![Len(g)].ylabel = s]

PltTitle(fs, t, s) ==
    LET g == PltGcf(fs, t) IN [g EXCEPT ![Len(g)].title = s]

PltGrid(fs, t, b) ==
    LET g == PltGcf(fs, t) IN [g EXCEPT ![Len(g)].grid = b]

(* plt.savefig(buf): renders the active figure                             *)
PltSavefig(fs, t) == Active(PltGcf(fs, t))

(* plt.close(): destroys the active figure, if there is one                *)
PltClose(fs) == IF fs = <<>> THEN fs ELSE SubSeq(fs, 1, Len(fs) - 1)

S_GraphOf == <<"G","r","a","p","h"," ","o","f"," ">>

(* f'Graph of {expression}'                                                *)
TitleOf(expression) == S_GraphOf \o expression.s

---------------------------------------------------------------------------
(* Responses.  jsonify(body), status; send_file(img); an exception that    *)
(* leaves calculate() is answered by the framework with a 500.             *)

NoResponse       == [status |-> 0]
JsonError(text)  == [status |-> 400, kind |-> "json", error |-> text]
JsonOk(body)     == [status |-> 200, kind |-> "json", body |-> body]
ImageOk(img)     == [status |-> 200, kind |-> "image", img |-> img]
Unhandled(exc)   == [status |-> 500, kind |-> "exception", exc |-> exc]

M_MissingLoan  == "Missing loan calculation arguments."
M_InvalidLoan  == "Invalid input: Loan parameters must be numbers."
M_MissingCalc  == "Missing basic/currency arguments (num1, num2, operator)"
M_InvalidCalc  == "Invalid input: num1 and num2 must be numbers"
M_MissingGraph == "Missing expression for graphing."
M_EvalError    == "Error evaluating expression"
M_InvalidMode  == "Invalid mode specified"

(* jsonify({'result': result}), 200: a complex number is not JSON          *)
(* serializable and jsonify raises TypeError for it                        *)
JsonifyResult(result) ==
    IF result.kind = "complex" THEN Unhandled("TypeError")
    ELSE JsonOk([result |-> result])

(* ModeBranch taking the basic branch when the mode is not recognised      *)
ModeBranch_default(mode) ==
    CASE mode = Str(S_loan)                              -> "loan"
      [] mode = Str(S_graph)                             -> "graph"
      [] OTHER                                           -> "calc"

(* the branch of the if/elif chain of calculate(), lines 107-193           *)
ModeBranch(mode) ==
    CASE mode = Str(S_loan)                              -> "loan"
      [] mode = Str(S_basic) \/ mode = Str(S_currency)   -> "calc"
      [] mode = Str(S_graph)                             -> "graph"
      [] OTHER                                           -> "invalid"

NoLocals ==
    [arg1 |-> Null, arg2 |-> Null, arg3 |-> Null, result |-> Null,
     x |-> <<>>, y |-> <<>>, img_buf |-> Null]

---------------------------------------------------------------------------
(* calculate(), one action per statement group.  t is the request.         *)

Return(t, r) ==
    /\ resp' = [resp EXCEPT ![t] = r]
    /\ pc'   = [pc EXCEPT ![t] = "done"]

Goto(t, label) ==
    /\ pc' = [pc EXCEPT ![t] = label]
    /\ UNCHANGED resp

(* lines 104-107, 129, 152, 192-193: read the mode and take its branch     *)
ParseMode(t) ==
    /\ pc[t] = "receive"
    /\ LET branch == ModeBranch(Get(data[t], "mode"))
       IN  IF branch = "invalid" THEN Return(t, JsonError(M_InvalidMode))
           ELSE Goto(t, branch)
    /\ UNCHANGED <<data, loc, coerced, calls, figs, drew>>

(* LoanValidate without the test for None                                  *)
LoanValidate_unchecked(t) ==
    /\ pc[t] = "loan"
    /\ loc' = [loc EXCEPT ![t].arg1 = Get(data[t], "loan_amount"),
                          ![t].arg2 = Get(data[t], "annual_interest_rate"),
                          ![t].arg3 = Get(data[t], "loan_term_years")]
    /\ Goto(t, "loan_coerce")
    /\ UNCHANGED <<data, coerced, calls, figs, drew>>

(* lines 108-113                                                           *)
LoanValidate(t) ==
    /\ pc[t] = "loan"
    /\ LET loan_amount          == Get(data[t], "loan_amount")
           annual_interest_rate == Get(data[t], "annual_interest_rate")
           loan_term_years      == Get(data[t], "loan_term_years")
       IN  /\ loc' = [loc EXCEPT ![t].arg1 = loan_amount,
                                 ![t].arg2 = annual_interest_rate,
                                 ![t].arg3 = loan_term_years]
           /\ IF \E arg \in {loan_amount, annual_interest_rate, loan_term_years} : IsNone(arg)
              THEN Return(t, JsonError(M_MissingLoan))
              ELSE Goto(t, "loan_coerce")
    /\ UNCHANGED <<data, coerced, calls, figs, drew>>

(* lines 115-120: only ValueError is caught                                *)
LoanCoerce(t) ==
    /\ pc[t] = "loan_coerce"
    /\ LET c == CoerceAll(<<loc[t].arg1, loc[t].arg2, loc[t].arg3>>, <<>>, 0)
       IN  /\ coerced' = [coerced EXCEPT ![t] = @ + c.n]
           /\ IF c.ok
              THEN /\ loc' = [loc EXCEPT ![t].arg1 = c.vals[1],
                                         ![t].arg2 = c.vals[2],
                                         ![t].arg3 = c.vals[3]]
                   /\ Goto(t, "loan_invoke")
              ELSE /\ UNCHANGED loc
                   /\ IF c.exc = "ValueError" THEN Return(t, JsonError(M_InvalidLoan))
                      ELSE Return(t, Unhandled(c.exc))
    /\ UNCHANGED <<data, calls, figs, drew>>

(* line 122                                                                *)
LoanInvoke(t) ==
    /\ pc[t] = "loan_invoke"
    /\ loc' = [loc EXCEPT ![t].result = calculate_loan(loc[t].arg1, loc[t].arg2, loc[t].arg3)]
    /\ calls' = [calls EXCEPT ![t] = Append(@, "calculate_loan")]
    /\ Goto(t, "loan_respond")
    /\ UNCHANGED <<data, coerced, figs, drew>>

(* lines 124-127                                                           *)
LoanRespond(t) ==
    /\ pc[t] = "loan_respond"
    /\ IF StartsWithError(loc[t].result)
       THEN Return(t, JsonError(loc[t].result.text))
       ELSE Return(t, JsonOk(loc[t].result))
    /\ UNCHANGED <<data, loc, coerced, calls, figs, drew>>

(* lines 131-136                                                           *)
CalcValidate(t) ==
    /\ pc[t] = "calc"
    /\ LET num1     == Get(data[t], "num1")
           num2     == Get(data[t], "num2")
           operator == Get(data[t], "operator")
       IN  /\ loc' = [loc EXCEPT ![t].arg1 = num1, ![t].arg2 = num2, ![t].arg3 = operator]
           /\ IF \E arg \in {num1, num2, operator} : IsNone(arg)
              THEN Return(t, JsonError(M_MissingCalc))
              ELSE Goto(t, "calc_coerce")
    /\ UNCHANGED <<data, coerced, calls, figs, drew>>

(* lines 139-143: only ValueError is caught                                *)
CalcCoerce(t) ==
    /\ pc[t] = "calc_coerce"
    /\ LET c == CoerceAll(<<loc[t].arg1, loc[t].arg2>>, <<>>, 0)
       IN  /\ coerced' = [coerced EXCEPT ![t] = @ + c.n]
           /\ IF c.ok
              THEN /\ loc' = [loc EXCEPT ![t].arg1 = c.vals[1], ![t].arg2 = c.vals[2]]
                   /\ Goto(t, "calc_invoke")
              ELSE /\ UNCHANGED loc
                   /\ IF c.exc = "ValueError" THEN Return(t, JsonError(M_InvalidCalc))
                      ELSE Return(t, Unhandled(c.exc))
    /\ UNCHANGED <<data, calls, figs, drew>>

(* line 145                                                                *)
CalcInvoke(t) ==
    /\ pc[t] = "calc_invoke"
    /\ loc' = [loc EXCEPT ![t].result =
                  perform_calculation(loc[t].arg1, loc[t].arg2, loc[t].arg3,
                                      Get(data[t], "mode"))]
    /\ calls' = [calls EXCEPT ![t] = Append(@, "perform_calculation")]
    /\ Goto(t, "calc_respond")
    /\ UNCHANGED <<data, coerced, figs, drew>>

(* lines 147-150                                                           *)
CalcRespond(t) ==
    /\ pc[t] = "calc_respond"
    /\ IF StartsWithError(loc[t].result)
       THEN Return(t, JsonError(loc[t].result.text))
       ELSE Return(t, JsonifyResult(loc[t].result))
    /\ UNCHANGED <<data, loc, coerced, calls, figs, drew>>

(* lines 154-160                                                           *)
GraphValidate(t) ==
    /\ pc[t] = "graph"
    /\ LET expression == Get(data[t], "expression")
           xmin       == GetDefault(data[t], "xmin", Num(DefaultXmin))
           xmax       == GetDefault(data[t], "xmax", Num(DefaultXmax))
       IN  /\ loc' = [loc EXCEPT ![t].arg1 = expression, ![t].arg2 = xmin, ![t].arg3 = xmax]
           /\ IF ~Truthy(expression)
              THEN Return(t, JsonError(M_MissingGraph))
              ELSE Goto(t, "graph_linspace")
    /\ UNCHANGED <<data, coerced, calls, figs, drew>>

(* line 162, outside the try block                                         *)
GraphLinspace(t) ==
    /\ pc[t] = "graph_linspace"
    /\ LET x == Linspace(loc[t].arg2, loc[t].arg3, NumPoints)
       IN  IF x.ok
           THEN /\ loc' = [loc EXCEPT ![t].x = x.v]
                /\ Goto(t, "graph_eval")
           ELSE /\ UNCHANGED loc
                /\ Return(t, Unhandled(x.exc))
    /\ UNCHANGED <<data, coerced, calls, figs, drew>>

(* lines 163-173                                                           *)
GraphEval(t) ==
    /\ pc[t] = "graph_eval"
    /\ LET y == EvalList(loc[t].arg1, loc[t].x, <<>>)
       IN  IF y.ok
           THEN /\ loc' = [loc EXCEPT ![t].y = y.v]
                /\ Goto(t, "graph_figure")
           ELSE /\ UNCHANGED loc
                /\ Return(t, [status |-> 400, kind |-> "json", error |-> M_EvalError,
                              cause |-> y.exc])
    /\ calls' = [calls EXCEPT ![t] = Append(@, "eval")]
    /\ UNCHANGED <<data, coerced, figs, drew>>

Drew(t, op, fs) ==
    drew' = [drew EXCEPT ![t] = Append(@, [op |-> op, owner |-> Active(fs).owner,
                                            num |-> Active(fs).num])]

(* a pyplot statement: figs becomes fs                                     *)
PltStep(t, from, to, op, fs) ==
    /\ pc[t] = from
    /\ figs' = fs
    /\ Drew(t, op, fs)
    /\ Goto(t, to)
    /\ UNCHANGED <<data, loc, coerced, calls>>

(* line 176 *)
GraphFigure(t) == PltStep(t, "graph_figure", "graph_plot", "figure", PltFigure(figs, t))
(* line 177 *)
GraphPlot(t)   == PltStep(t, "graph_plot", "graph_xlabel", "plot",
                          PltPlot(figs, t, loc[t].x, loc[t].y))
(* line 178 *)
GraphXlabel(t) == PltStep(t, "graph_xlabel", "graph_ylabel", "xlabel", PltXlabel(figs, t, "x"))
(* line 179 *)
GraphYlabel(t) == PltStep(t, "graph_ylabel", "graph_title", "ylabel", PltYlabel(figs, t, "f(x)"))
(* line 180 *)
GraphTitle(t)  == PltStep(t, "graph_title", "graph_grid", "title",
                          PltTitle(figs, t, TitleOf(loc[t].arg1)))
(* line 181 *)
GraphGrid(t)   == PltStep(t, "graph_grid", "graph_savefig", "grid", PltGrid(figs, t, TRUE))

(* lines 184-186                                                           *)
GraphSavefig(t) ==
    /\ pc[t] = "graph_savefig"
    /\ figs' = PltGcf(figs, t)
    /\ Drew(t, "savefig", PltGcf(figs, t))
    /\ loc' = [loc EXCEPT ![t].img_buf = PltSavefig(figs, t)]
    /\ Goto(t, "graph_close")
    /\ UNCHANGED <<data, coerced, calls>>

(* line 187                                                                *)
GraphClose(t) ==
    /\ pc[t] = "graph_close"
    /\ figs' = PltClose(figs)
    /\ drew' = [drew EXCEPT ![t] = Append(@,
                   IF figs = <<>> THEN [op |-> "close", owner |-> 0, num |-> 0]
                   ELSE [op |-> "close", owner |-> Active(figs).owner,
                         num |-> Active(figs).num])]
    /\ Goto(t, "graph_send")
    /\ UNCHANGED <<data, loc, coerced, calls>>

(* line 190                                                                *)
GraphSend(t) ==
    /\ pc[t] = "graph_send"
    /\ Return(t, ImageOk(loc[t].img_buf))
    /\ UNCHANGED <<data, loc, coerced, calls, figs, drew>>

---------------------------------------------------------------------------
(* Request bodies                                                          *)

Keys ==
    {"mode", "loan_amount", "annual_interest_rate", "loan_term_years",
     "num1", "num2", "operator", "expression", "xmin", "xmax"}

EmptyBody == [k \in Keys |-> Absent]

LoanAmounts == {Absent, Null, Num(-100), Num(0), Num(100), Num(1000),
                Str(<<"1","0","0">>), Str(<<"a">>), List, Bool(TRUE)}
LoanRates   == {Absent, Num(-5), Num(0), Num(1200), Num(2400), Str(<<"a">>), Obj}
LoanTerms   == {Absent, Num(-1), Num(0), Num(1), Str(<<"1">>), Str(<<>>), List}

LoanBodies ==
    {[EmptyBody EXCEPT !["mode"] = Str(S_loan), !["loan_amount"] = a,
                       !["annual_interest_rate"] = r, !["loan_term_years"] = y] :
        a \in LoanAmounts, r \in LoanRates, y \in LoanTerms}

Operands  == {Absent, Num(-8), Num(-1), Num(0), Num(2), Num(3),
              Str(<<"2">>), Str(<<"-","8">>), Str(<<"a">>), List, Obj, Bool(TRUE)}
Operators == {Absent, Num(1)} \cup
             {Str(o) : o \in {S_plus, S_minus, S_times, S_div, S_mod, S_pow,
                              S_root, S_convert}}

CalcBodies ==
    {[EmptyBody EXCEPT !["mode"] = Str(m), !["num1"] = a, !["num2"] = b,
                       !["operator"] = o] :
        m \in {S_basic, S_currency}, a \in Operands, b \in Operands, o \in Operators}

Expressions == {Absent, Null, Num(5), Str(<<>>), Str(X_x), Str(X_caret), Str(X_log),
                Str(X_y)}

GraphBodies ==
    {[EmptyBody EXCEPT !["mode"] = Str(S_graph), !["expression"] = e,
                       !["xmin"] = lo, !["xmax"] = hi] :
        e \in Expressions, lo \in {Absent, Null, Num(-2), Num(1), Str(<<"1">>)},
        hi \in {Absent, Num(2)}}

OtherModes == {Absent, Null, Num(1), Str(S_Loan), Str(<<>>), List}

OtherBodies ==
    {[b EXCEPT !["mode"] = m] :
        m \in OtherModes,
        b \in {EmptyBody,
               [EmptyBody EXCEPT !["loan_amount"] = Num(100),
                                 !["annual_interest_rate"] = Num(0),
                                 !["loan_term_years"] = Num(1)],
               [EmptyBody EXCEPT !["num1"] = Num(2), !["num2"] = Num(0),
                                 !["operator"] = Str(S_div)],
               [EmptyBody EXCEPT !["num1"] = List, !["num2"] = Str(<<"a">>),
                                 !["operator"] = Str(S_plus)],
               [EmptyBody EXCEPT !["expression"] = Str(X_caret)]}}

Bodies == LoanBodies \cup CalcBodies \cup GraphBodies \cup OtherBodies

(* the bodies of the concurrent graph requests                             *)
ConcurrentBodies ==
    {[EmptyBody EXCEPT !["mode"] = Str(S_graph), !["expression"] = Str(e)] :
        e \in {X_x, X_caret, X_log}}

(* the two requests served concurrently                                    *)
Requests == {1, 2}

---------------------------------------------------------------------------
(* Specifications                                                          *)

InitWith(requests, bodies) ==
    /\ data \in [requests -> bodies]
    /\ pc = [t \in requests |-> "receive"]
    /\ loc = [t \in requests |-> NoLocals]
    /\ resp = [t \in requests |-> NoResponse]
    /\ coerced = [t \in requests |-> 0]
    /\ calls = [t \in requests |-> <<>>]
    /\ figs = <<>>
    /\ drew = [t \in requests |-> <<>>]

(* one request, any body *)
Init == InitWith({1}, Bodies)

Next ==
    \E t \in DOMAIN pc :
        \/ ParseMode(t)
        \/ LoanValidate(t) \/ LoanCoerce(t) \/ LoanInvoke(t) \/ LoanRespond(t)
        \/ CalcValidate(t) \/ CalcCoerce(t) \/ CalcInvoke(t) \/ CalcRespond(t)
        \/ GraphValidate(t) \/ GraphLinspace(t) \/ GraphEval(t)
        \/ GraphFigure(t) \/ GraphPlot(t) \/ GraphXlabel(t) \/ GraphYlabel(t)
        \/ GraphTitle(t) \/ GraphGrid(t) \/ GraphSavefig(t) \/ GraphClose(t)
        \/ GraphSend(t)

Spec == Init /\ [][Next]_vars

(* graph requests served concurrently, each on its own thread *)
InitConcurrent == InitWith(Requests, ConcurrentBodies)

NextConcurrent ==
    \E t \in DOMAIN pc :
        \/ ParseMode(t)
        \/ GraphValidate(t) \/ GraphLinspace(t) \/ GraphEval(t)
        \/ GraphFigure(t) \/ GraphPlot(t) \/ GraphXlabel(t) \/ GraphYlabel(t)
        \/ GraphTitle(t) \/ GraphGrid(t) \/ GraphSavefig(t) \/ GraphClose(t)
        \/ GraphSend(t)

SpecConcurrent == InitConcurrent /\ [][NextConcurrent]_vars

---------------------------------------------------------------------------
(* Properties                                                              *)

Done(t)      == pc[t] = "done"
Field(t, k)  == data[t][k]
ModeIs(t, m) == Get(data[t], "mode") = Str(m)

(* the value is a number or a string float() parses                        *)
IsNumeric(v) == v.t = "num" \/ (v.t = "str" /\ ParseFloat(v.s).ok)

LoanFields == {"loan_amount", "annual_interest_rate", "loan_term_years"}
CalcFields == {"num1", "num2", "operator"}

MissingIn(t) ==
    \/ ModeIs(t, S_loan) /\ \E k \in LoanFields : Field(t, k) = Absent
    \/ (ModeIs(t, S_basic) \/ ModeIs(t, S_currency)) /\ \E k \in CalcFields : Field(t, k) = Absent
    \/ ModeIs(t, S_graph) /\ Field(t, "expression") = Absent

MissingMessage(t) ==
    IF ModeIs(t, S_loan) THEN M_MissingLoan
    ELSE IF ModeIs(t, S_graph) THEN M_MissingGraph ELSE M_MissingCalc

(* C1: a loan, basic, currency or graph request with a required field      *)
(* missing returns from the field test of its branch: it makes no float()  *)
(* call and no evaluator call, and the response it ends with is the 400    *)
(* missing-arguments error of its mode.                                    *)
C1_MissingArguments ==
    \A t \in DOMAIN pc :
        MissingIn(t) =>
            /\ pc[t] \in {"receive", "loan", "calc", "graph", "done"}
            /\ coerced[t] = 0
            /\ calls[t] = <<>>
            /\ drew[t] = <<>>
            /\ Done(t) => resp[t] = JsonError(MissingMessage(t))

C1_Witness ==
    \E t \in DOMAIN pc :
        /\ Done(t)
        /\ ModeIs(t, S_loan)
        /\ Field(t, "annual_interest_rate") = Absent
        /\ Field(t, "loan_amount") = Str(<<"a">>)
        /\ resp[t] = JsonError(M_MissingLoan)

NumericFieldsOf(t) ==
    IF ModeIs(t, S_loan) THEN LoanFields ELSE {"num1", "num2"}

RequiredOf(t) == IF ModeIs(t, S_loan) THEN LoanFields ELSE CalcFields

(* C2: a loan, basic or currency request with every required field        *)
(* present and some numeric field that is neither a number nor a numeric   *)
(* string ends with the 400 invalid-numeric-input error and calls no       *)
(* evaluator.                                                              *)
C2_InvalidNumericInput ==
    \A t \in DOMAIN pc :
        ( /\ ModeIs(t, S_loan) \/ ModeIs(t, S_basic) \/ ModeIs(t, S_currency)
          /\ \A k \in RequiredOf(t) : ~IsNone(Field(t, k))
          /\ \E k \in NumericFieldsOf(t) : ~IsNumeric(Field(t, k)) )
        => /\ calls[t] = <<>>
           /\ Done(t) => resp[t] \in {JsonError(M_InvalidLoan), JsonError(M_InvalidCalc)}

(* a basic or currency request whose operands float() accepts              *)
CalcRequest(t, mode, operator) ==
    /\ ModeIs(t, mode)
    /\ Field(t, "operator") = Str(operator)
    /\ IsNumeric(Field(t, "num1"))
    /\ IsNumeric(Field(t, "num2"))

Num1(t) == ToFloat(Field(t, "num1")).v
Num2(t) == ToFloat(Field(t, "num2")).v

(* C3, as stated: in basic mode '/' and '%' with num2 = 0 both end with    *)
(* the division-by-zero error.                                             *)
C3_Original ==
    \A t \in DOMAIN pc :
        \A o \in {S_div, S_mod} :
            (CalcRequest(t, S_basic, o) /\ RatIsZero(Num2(t)) /\ Done(t))
            => resp[t] = JsonError(E_DivZero)

(* C3, amended: in basic mode '/' with num2 = 0 ends with the              *)
(* division-by-zero error for every num1; '%' is not an operator of        *)
(* perform_calculation and ends with the invalid-operator error for every  *)
(* num2, 0 included.                                                       *)
C3_DivisionByZero ==
    \A t \in DOMAIN pc :
        /\ (CalcRequest(t, S_basic, S_div) /\ RatIsZero(Num2(t)) /\ Done(t))
           => resp[t] = JsonError(E_DivZero)
        /\ (CalcRequest(t, S_basic, S_mod) /\ Done(t))
           => resp[t] = JsonError(E_BadOperator)

C3_Witness ==
    \E t \in DOMAIN pc :
        /\ Done(t)
        /\ CalcRequest(t, S_basic, S_div)
        /\ Num1(t) = Rat(-8)
        /\ RatIsZero(Num2(t))
        /\ resp[t] = JsonError(E_DivZero)

(* C4: a root request with a negative base or a zero degree ends with a    *)
(* 400 domain error; no root request computes a non-real result or ends    *)
(* with anything but {result: number}/200 or {error}/400.                  *)
C4_RootDomain ==
    \A t \in DOMAIN pc :
        \A m \in {S_basic, S_currency} :
            CalcRequest(t, m, S_root) =>
                /\ loc[t].result # Null => loc[t].result.kind # "complex"
                /\ Done(t) =>
                      /\ resp[t].status \in {200, 400}
                      /\ (RatLt(Num1(t), Rat(0)) \/ RatIsZero(Num2(t)))
                         => resp[t] \in {JsonError(E_ZerothRoot), JsonError(E_NegativeRoot)}

(* C5: a currency request with operator 'convert' returns                  *)
(* {result: num2 * num1}, 200 when num1 # 0 and a 400 invalid-rate error   *)
(* when num1 = 0.                                                          *)
C5_CurrencyConvert ==
    \A t \in DOMAIN pc :
        (CalcRequest(t, S_currency, S_convert) /\ Done(t)) =>
            IF RatIsZero(Num1(t))
            THEN resp[t].status = 400 /\ resp[t].error # E_BadOperator
            ELSE resp[t] = JsonOk([result |-> FloatResult(RatMul(Num2(t), Num1(t)))])

(* a loan request answered with a payment for a positive rate              *)
LoanPaid(t) ==
    /\ ModeIs(t, S_loan)
    /\ Done(t)
    /\ resp[t].status = 200
    /\ RatLt(Rat(0), loc[t].arg2)

Payments(t) == RatMul(loc[t].arg3, Rat(12))

(* C6, as stated: the returned total_repayment is the returned             *)
(* monthly_payment times n.                                                *)
C6_Original ==
    \A t \in DOMAIN pc :
        LoanPaid(t) =>
            resp[t].body.total_repayment = RatMul(resp[t].body.monthly_payment, Payments(t))

(* C6, amended: monthly_payment and total_repayment are each rounded to    *)
(* 2 decimals from the unrounded values, so the returned total differs     *)
(* from the returned monthly payment times n by at most 0.005 * (n + 1).   *)
C6_RoundedTotal ==
    \A t \in DOMAIN pc :
        LoanPaid(t) =>
            RatLe(RatAbs(RatSub(resp[t].body.total_repayment,
                                RatMul(resp[t].body.monthly_payment, Payments(t)))),
                  RatDiv(RatAdd(Payments(t), Rat(1)), Rat(200)))

C6_Witness ==
    \E t \in DOMAIN pc :
        /\ LoanPaid(t)
        /\ resp[t].body.total_repayment # RatMul(resp[t].body.monthly_payment, Payments(t))

LoanInvalid(t) ==
    \/ RatLt(loc[t].arg1, Rat(0))
    \/ RatLt(loc[t].arg2, Rat(0))
    \/ RatLe(loc[t].arg3, Rat(0))

(* C7: calculate_loan returns the invalid-input error exactly when         *)
(* principal < 0 or rate < 0 or term <= 0 and otherwise goes on to the     *)
(* payment computation; calculate() answers an error with 400 and a        *)
(* payment with 200.                                                       *)
C7_LoanValidation ==
    \A t \in DOMAIN pc :
        (ModeIs(t, S_loan) /\ calls[t] # <<>>) =>
            /\ loc[t].result = ErrorString(E_LoanInvalid) <=> LoanInvalid(t)
            /\ ~LoanInvalid(t) =>
                  \/ loc[t].result.kind = "dict"
                  \/ loc[t].result \in {ErrorString(E_ZeroDenom), ErrorString(E_LoanUnexpect)}
            /\ Done(t) =>
                  IF loc[t].result.kind = "dict"
                  THEN resp[t] = JsonOk(loc[t].result)
                  ELSE resp[t] = JsonError(loc[t].result.text)

C7_Witness ==
    \E t \in DOMAIN pc :
        /\ ModeIs(t, S_loan)
        /\ Done(t)
        /\ calls[t] = <<"calculate_loan">>
        /\ loc[t].arg1 = Rat(0)
        /\ loc[t].arg2 = Rat(0)
        /\ resp[t].status = 200
        /\ resp[t].body.monthly_payment = Rat(0)

ValidModes == {Str(S_basic), Str(S_currency), Str(S_loan), Str(S_graph)}

(* C8: a request whose mode is absent or is not basic, currency, loan or   *)
(* graph reads no field, makes no float() call and no evaluator call, and  *)
(* ends with the 400 invalid-mode error, whatever else its body carries.   *)
C8_InvalidMode ==
    \A t \in DOMAIN pc :
        Field(t, "mode") \notin ValidModes =>
            /\ pc[t] \in {"receive", "done"}
            /\ loc[t] = NoLocals
            /\ coerced[t] = 0
            /\ calls[t] = <<>>
            /\ drew[t] = <<>>
            /\ Done(t) => resp[t] = JsonError(M_InvalidMode)

C8_Witness ==
    \E t \in DOMAIN pc :
        /\ Done(t)
        /\ Field(t, "mode") = Absent
        /\ Field(t, "num1") = Num(2)
        /\ Field(t, "operator") = Str(S_div)
        /\ resp[t] = JsonError(M_InvalidMode)

(* evaluation of the expression of request t throws at some sample         *)
ThrowsAt(t) ==
    \/ loc[t].arg1.t # "str"
    \/ \E k \in 1..Len(loc[t].x) :
          ~Eval(Replace(loc[t].arg1.s, "^", <<"*","*">>), loc[t].x[k]).ok

(* C9: a graph request whose expression throws at some sample ends with    *)
(* the 400 expression error without any pyplot call or image; an image is  *)
(* returned only when every sample was evaluated, none skipped.            *)
C9_ExpressionError ==
    \A t \in DOMAIN pc :
        /\ (ModeIs(t, S_graph) /\ calls[t] # <<>> /\ ThrowsAt(t)) =>
              /\ Done(t)
              /\ resp[t].status = 400
              /\ resp[t].error = M_EvalError
              /\ drew[t] = <<>>
              /\ figs = <<>>
              /\ loc[t].img_buf = Null
        /\ (Done(t) /\ resp[t].status = 200 /\ resp[t].kind = "image") =>
              /\ ~ThrowsAt(t)
              /\ Len(loc[t].y) = NumPoints
              /\ resp[t].img.lines = <<[x |-> loc[t].x, y |-> loc[t].y]>>

C9_Witness ==
    \E t \in DOMAIN pc :
        /\ Done(t)
        /\ Field(t, "expression") = Str(X_log)
        /\ Field(t, "xmin") = Num(-2)
        /\ calls[t] = <<"eval">>
        /\ \E k \in 1..Len(loc[t].x) : Eval(X_log, loc[t].x[k]).ok
        /\ \E k \in 1..Len(loc[t].x) : ~Eval(X_log, loc[t].x[k]).ok
        /\ resp[t].status = 400

(* C10: when graph requests are served concurrently, each returned image   *)
(* holds only the curve and the title of its own request, each request     *)
(* closes only the figure it created, and no figure is left open once      *)
(* all have finished.                                                      *)
C10_Isolation ==
    /\ \A t \in DOMAIN pc :
          /\ (Done(t) /\ resp[t].status = 200) =>
                /\ resp[t].img.lines = <<[x |-> loc[t].x, y |-> loc[t].y]>>
                /\ resp[t].img.title = TitleOf(loc[t].arg1)
          /\ \A i \in 1..Len(drew[t]) :
                drew[t][i].op = "close" => drew[t][i].owner = t
    /\ (\A t \in DOMAIN pc : Done(t)) => figs = <<>>

=============================================================================
